---- MODULE Spec2Model ----
(***************************************************************************)
(* Model of the account-coverage application (src/app.py): the workbook    *)
(* extraction loop process_excel_file and the FTE allocation annotator     *)
(* calculate_fte_allocations.                                              *)
(*                                                                         *)
(* Text is modelled as a sequence of one-character strings, so that        *)
(* trimming, splitting and the placeholder pattern are computed as the     *)
(* code computes them.  A missing cell (pandas NaN) is the value NaN.      *)
(***************************************************************************)
EXTENDS Integers, Sequences, FiniteSets, TLC

VARIABLES
    wb,                       \* the workbook: the sheets (DataFrames) in workbook order
    pc,                       \* position in process_excel_file
    sheet_i,                  \* position of the sheet loop (1-based index into wb)
    row_idx,                  \* position of the data-row loop (0-based row index)
    col_idx,                  \* position of the personnel-column loop (0-based column)
    role_categories,          \* column -> category label of the current sheet
    roles,                    \* column -> role label of the current sheet
    account_name,             \* account of the current row
    row_personnel_count,      \* Records emitted for the current row so far
    full_data,                \* the accumulated Record list
    account_personnel_count,  \* account -> number of Records (the tally)
    data_frame,               \* the rows of the DataFrame given to the annotator
    allocation,               \* its allocation column (<<>> while the column is absent)
    columns,                  \* its column labels, in order
    runs,                     \* completed calls of calculate_fte_allocations
    file_ok,                  \* whether the source file can be opened and parsed
    request,                  \* the last request served
    response,                 \* the response given to it
    handlers                  \* thread -> the FTE view it runs and where it stands

vars == <<wb, pc, sheet_i, row_idx, col_idx, role_categories, roles, account_name,
          row_personnel_count, full_data, account_personnel_count,
          data_frame, allocation, columns, runs, file_ok, request, response,
          handlers>>

extractVars == <<wb, pc, sheet_i, row_idx, col_idx, role_categories, roles,
                 account_name, row_personnel_count, full_data,
                 account_personnel_count>>

frameVars == <<data_frame, allocation, columns, runs>>

ioVars == <<file_ok, request, response, handlers>>

\* the request threads of the development server (app.run, threaded)
Threads == { "t1", "t2" }

Idle == [at |-> "idle"]

NoHandlers == [t \in Threads |-> Idle]

----------------------------------------------------------------------------
(* Bounds of the model *)

MaxSheets == 2

MaxDataRows == 2

MaxRecords == 4

MaxRuns == 2

MaxServed == 2

(* Constants of the program *)

HeaderRows == 2

RowLimit == 56

account_col_idx == 1

client_type_col_idx == 2

leader_col_idx == 3

manager_col_idx == 4

\* the personnel columns taken to begin at the manager column (a faulty variant)
FirstPersonnelCol_manager == manager_col_idx

\* for col_idx in range(7, df.shape[1])
FirstPersonnelCol == 7

----------------------------------------------------------------------------
(* Text *)

NaN == <<"NaN">>

isna(v) == v = NaN

RECURSIVE lstrip(_)
lstrip(s) == IF s # <<>> /\ Head(s) = " " THEN lstrip(Tail(s)) ELSE s

RECURSIVE rstrip(_)
rstrip(s) ==
    IF s # <<>> /\ s[Len(s)] = " " THEN rstrip(SubSeq(s, 1, Len(s) - 1)) ELSE s

strip(s) == rstrip(lstrip(s))

contains(s, ch) == \E i \in DOMAIN s : s[i] = ch

\* str.split(sep): the pieces between the separators, empty pieces included
RECURSIVE split(_, _)
split(s, sep) ==
    IF ~contains(s, sep) THEN <<s>>
    ELSE LET i == CHOOSE k \in DOMAIN s :
                      s[k] = sep /\ \A j \in 1..(k - 1) : s[j] # sep
         IN  <<SubSeq(s, 1, i - 1)>> \o split(SubSeq(s, i + 1, Len(s)), sep)

\* letter case, for matching with case=False
UpperLetters ==
    <<"A", "B", "C", "D", "E", "F", "G", "H", "I", "J", "K", "L", "M",
      "N", "O", "P", "Q", "R", "S", "T", "U", "V", "W", "X", "Y", "Z">>

LowerLetters ==
    <<"a", "b", "c", "d", "e", "f", "g", "h", "i", "j", "k", "l", "m",
      "n", "o", "p", "q", "r", "s", "t", "u", "v", "w", "x", "y", "z">>

LowerChar(ch) ==
    IF \E i \in DOMAIN UpperLetters : UpperLetters[i] = ch
    THEN LowerLetters[CHOOSE i \in DOMAIN UpperLetters : UpperLetters[i] = ch]
    ELSE ch

Lower(s) == [i \in DOMAIN s |-> LowerChar(s[i])]

TBD == <<"T", "B", "D">>

N_A == <<"N", "/", "A">>

None == <<"N", "o", "n", "e">>

Select == <<"S", "e", "l", "e", "c", "t">>

\* the pattern without its alternative "Select" (a faulty variant)
placeholder_pattern_noselect(s) ==
    \/ s \in {TBD, N_A, None}
    \/ Len(s) >= 1 /\ \A i \in DOMAIN s : s[i] = "-"

\* re.match(r'^(TBD|N/A|None|Select|-+)$', s)
placeholder_pattern(s) ==
    \/ s \in {TBD, N_A, None, Select}
    \/ Len(s) >= 1 /\ \A i \in DOMAIN s : s[i] = "-"

----------------------------------------------------------------------------
(* Cell texts used by the workbooks of the model *)

Al == <<"A", "l">>

Bo == <<"B", "o">>

Cy == <<"C", "y">>

Blank == <<" ">>

BoPadded == <<" ", "B", "o", " ">>

AlCommaBo == <<"A", "l", ",", " ", "B", "o">>

AlSlashBo == <<"A", "l", "/", "B", "o">>

AlSlashBoCommaCy == <<"A", "l", "/", "B", "o", ",", "C", "y">>

TBDPadded == <<" ", "T", "B", "D", " ">>

tbd == <<"t", "b", "d">>

select == <<"s", "e", "l", "e", "c", "t">>

Hyphen == <<"-">>

Hyphens == <<"-", "-", "-">>

AlCommaTBD == <<"A", "l", ",", "T", "B", "D">>

AlSlashtbd == <<"A", "l", "/", "t", "b", "d">>

AlCommaAl == <<"A", "l", ",", "A", "l">>

Comma == <<",">>

AlComma == <<"A", "l", ",">>

TBDCommaHyphen == <<"T", "B", "D", ",", "-">>

RBC == <<"R", "B", "C">>

TD == <<"T", "D">>

BMO == <<"B", "M", "O">>

RBCPadded == <<" ", "R", "B", "C", " ">>

Enterprise == <<"E", "n", "t">>

Li == <<"L", "i">>

Mo == <<"M", "o">>

Data == <<"D", "a", "t", "a">>

Infra == <<"I", "n", "f", "r", "a">>

InfraPadded == <<" ", "I", "n", "f", "r", "a", " ">>

Mgmt == <<"M", "g", "m", "t">>

CoverageName == <<"C", "o", "v", "e", "r", "a", "g", "e", " ", "N", "a", "m", "e">>

ClientSubType == <<"C", "l", "i", "e", "n", "t", " ", "S", "u", "b", " ", "T", "y", "p", "e">>

Leader == <<"L", "e", "a", "d", "e", "r">>

ATLManager == <<"A", "T", "L", " ", "M", "a", "n", "a", "g", "e", "r">>

Lead == <<"L", "e", "a", "d">>

Arch == <<"A", "r", "c", "h">>

----------------------------------------------------------------------------
(* Sheets.  A sheet is what pd.read_excel(header=None) returns: a grid of   *)
(* nrows x ncols cells, 0-indexed, in which every cell not written is NaN.  *)

ALee == <<"A", ".", "L", "e", "e">>

JSmith == <<"J", ".", "S", "m", "i", "t", "h">>

AWSLead == <<"A", "W", "S", " ", "L", "e", "a", "d">>

SecLead == <<"S", "e", "c", " ", "L", "e", "a", "d">>

Cloud == <<"C", "l", "o", "u", "d">>

Security == <<"S", "e", "c", "u", "r", "i", "t", "y">>

EnterpriseClient == <<"E", "n", "t", "e", "r", "p", "r", "i", "s", "e">>

Sheet(name, nrows, ncols, cells) ==
    [name |-> name, nrows |-> nrows, ncols |-> ncols, cells |-> cells]

\* df.iloc[r, c] for a position inside the grid
iloc(df, r, c) == IF <<r, c>> \in DOMAIN df.cells THEN df.cells[<<r, c>>] ELSE NaN

NoCells == [p \in {} |-> NaN]

\* the cells of row r holding vals[c] in column c
RowCells(r, vals) == [p \in {r} \X DOMAIN vals |-> vals[p[2]]]

RECURSIVE RowsCells(_, _)
RowsCells(first, rows) ==
    IF rows = <<>> THEN NoCells
    ELSE RowCells(first, Head(rows)) @@ RowsCells(first + 1, Tail(rows))

NoLabels == [c \in {} |-> NaN]

GoodCategories == (7 :> Data)

GoodRoles ==
    (1 :> CoverageName) @@ (2 :> ClientSubType) @@ (3 :> Leader) @@
    (4 :> ATLManager) @@ (7 :> Lead) @@ (8 :> Arch)

CategoryRows ==
    { NoLabels,
      GoodCategories,
      (7 :> Data) @@ (8 :> Infra),
      (4 :> Mgmt),
      (0 :> Data) @@ (8 :> InfraPadded),
      (7 :> Data) @@ (8 :> Blank) }

RoleRows == { NoLabels, GoodRoles, (4 :> ATLManager) @@ (8 :> Arch) }

\* a data row: account, client type, leader, manager and two personnel cells
DataRow(acct, p7, p8) ==
    (1 :> acct) @@ (2 :> Enterprise) @@ (3 :> Li) @@ (4 :> NaN) @@
    (7 :> p7) @@ (8 :> p8)

PersonCells ==
    { NaN, Blank, Al, BoPadded, AlCommaBo, AlSlashBo, AlSlashBoCommaCy,
      TBD, TBDPadded, tbd, N_A, None, Select, select, Hyphen, Hyphens,
      AlCommaTBD, AlSlashtbd, AlCommaAl, Comma, AlComma, TBDCommaHyphen }

AccountCells == { NaN, Blank, RBC, RBCPadded, TD, TBD, Hyphen }

FewPersonCells == { NaN, Al, TBD }

\* a sheet of nine columns with the given header rows and data rows from row 2 on
Grid(name, cats, rls, rows) ==
    Sheet(name, HeaderRows + Len(rows), 9,
          RowCells(0, cats) @@ RowCells(1, rls) @@ RowsCells(HeaderRows, rows))

\* one data row, every pair of personnel cells
CellSheets ==
    { Grid("Data", GoodCategories, GoodRoles, <<DataRow(RBC, p7, p8)>>) :
        p7 \in PersonCells, p8 \in PersonCells }

\* every pair of header rows over one data row
HeaderSheets ==
    { Grid("Data", cats, rls, <<DataRow(RBC, Al, AlCommaBo)>>) :
        cats \in CategoryRows, rls \in RoleRows }

RECURSIVE RowLists(_)
RowLists(n) ==
    IF n = 0 THEN {<<>>}
    ELSE LET shorter == RowLists(n - 1)
         IN  shorter \cup
             { Append(rows, DataRow(acct, p7, Bo)) :
                 rows \in {x \in shorter : Len(x) = n - 1},
                 acct \in AccountCells, p7 \in FewPersonCells }

\* up to MaxDataRows data rows, every account cell
RowSheets ==
    { Grid("Data", GoodCategories, GoodRoles, rows) : rows \in RowLists(MaxDataRows) }

\* the sheets whose shape is not the usual one
EmptySheet == Sheet("Empty", 0, 0, NoCells)

TitleSheet == Sheet("Title", 1, 9, RowCells(0, (0 :> Data)))

BlankHeaderSheet == Grid("Blank", NoLabels, NoLabels, <<DataRow(TD, Cy, NaN)>>)

NotesSheet == Sheet("Notes", 2, 9, NoCells)

NarrowSheet ==
    Sheet("Narrow", 3, 4,
          RowCells(1, (1 :> CoverageName)) @@ RowCells(2, (1 :> RBC) @@ (2 :> Enterprise)))

OneColumnSheet == Sheet("Column", 3, 1, RowCells(2, (0 :> RBC)))

NoPersonnelSheet ==
    Sheet("Short", 3, 7, RowCells(1, GoodRoles) @@ RowCells(2, DataRow(RBC, NaN, NaN)))

\* a sheet longer than the row limit, with data in its last rows
TallSheet ==
    Sheet("Tall", RowLimit + 2, 9,
          RowCells(0, GoodCategories) @@ RowCells(1, GoodRoles) @@
          RowCells(RowLimit - 1, DataRow(RBC, Al, NaN)) @@
          RowCells(RowLimit, DataRow(TD, Bo, NaN)) @@
          RowCells(RowLimit + 1, DataRow(BMO, Cy, NaN)))

\* a sheet of seven columns whose personnel sit right after the leader column
InfrastructureSheet ==
    Sheet("Infrastructure", 3, 7,
          RowCells(0, (4 :> Cloud) @@ (6 :> Security)) @@
          RowCells(1, (1 :> CoverageName) @@ (2 :> ClientSubType) @@ (3 :> Leader) @@
                      (4 :> AWSLead) @@ (5 :> SecLead)) @@
          RowCells(2, (1 :> RBC) @@ (2 :> EnterpriseClient) @@ (3 :> JSmith) @@
                      (4 :> ALee) @@ (5 :> TBD)))

\* a sheet with names in its header rows and in the columns left of the personnel
CrowdedSheet ==
    Sheet("Crowded", 3, 9,
          RowCells(0, (0 :> Al) @@ (5 :> Bo) @@ (7 :> Data) @@ (8 :> Cy)) @@
          RowCells(1, GoodRoles @@ (0 :> Cy) @@ (5 :> Bo) @@ (6 :> Al)) @@
          RowCells(2, (0 :> Bo) @@ (1 :> RBC) @@ (2 :> Enterprise) @@ (3 :> Li) @@
                      (4 :> Mo) @@ (5 :> Cy) @@ (6 :> AlCommaBo) @@ (7 :> Al)))

\* two data rows that differ in every management cell, the second with cells missing
MixedSheet ==
    Sheet("Mixed", 4, 9,
          RowCells(0, GoodCategories) @@ RowCells(1, GoodRoles) @@
          RowCells(2, (1 :> RBC) @@ (2 :> Enterprise) @@ (3 :> Li) @@ (4 :> Mo) @@
                      (7 :> Al)) @@
          RowCells(3, (1 :> TD) @@ (3 :> BoPadded) @@ (7 :> Cy)))

\* an account with personnel in two rows and an account with a row without personnel
IdleSheet ==
    Grid("Idle", GoodCategories, GoodRoles,
         <<DataRow(RBC, Al, AlCommaBo), DataRow(TD, NaN, NaN), DataRow(RBC, Cy, NaN)>>)

ShapeSheets ==
    { CrowdedSheet, MixedSheet, IdleSheet, EmptySheet, TitleSheet, BlankHeaderSheet, NotesSheet, NarrowSheet,
      OneColumnSheet, NoPersonnelSheet, TallSheet, InfrastructureSheet }

GoodSheet == Grid("Data", GoodCategories, GoodRoles, <<DataRow(RBC, Al, AlCommaBo)>>)

OtherGoodSheet ==
    Grid("Infra", GoodCategories, GoodRoles,
         <<DataRow(RBC, Al, NaN), DataRow(TD, Al, Cy)>>)

BasicSheets ==
    { GoodSheet, OtherGoodSheet, EmptySheet, TitleSheet, BlankHeaderSheet,
      NotesSheet, NarrowSheet }

RECURSIVE SheetLists(_)
SheetLists(n) ==
    IF n = 0 THEN {<<>>}
    ELSE LET shorter == SheetLists(n - 1)
         IN  shorter \cup
             { Append(l, sh) : l \in {x \in shorter : Len(x) = n - 1},
                               sh \in BasicSheets }

\* what a file that cannot be read would have held
UnreadableWorkbooks == { <<>>, <<GoodSheet>>, <<GoodSheet, OtherGoodSheet>> }

Workbooks ==
    SheetLists(MaxSheets)
      \cup { <<sh>> : sh \in CellSheets \cup HeaderSheets \cup RowSheets \cup ShapeSheets }

----------------------------------------------------------------------------
(* process_excel_file: the helpers of one sheet and of one cell *)

Max(S) == CHOOSE x \in S : \A y \in S : y <= x

Min2(a, b) == IF a <= b THEN a ELSE b

\* the sheet at the position of the sheet loop
df == wb[sheet_i]

\* the labels of header row r: column -> trimmed label, for the non-empty ones
header_labels(d, r) ==
    LET cols == { c \in 0..(d.ncols - 1) :
                    ~isna(iloc(d, r, c)) /\ strip(iloc(d, r, c)) # <<>> }
    IN  [c \in cols |-> strip(iloc(d, r, c))]

\* the scan reduced to the column's own label (a faulty variant)
lookup_own(labels, col) == IF col \in DOMAIN labels THEN labels[col] ELSE <<>>

\* the scan stops at the first personnel column (a faulty variant)
lookup_left_personnel(labels, col) ==
    LET at == { c \in DOMAIN labels : c <= col /\ c >= FirstPersonnelCol }
    IN  IF at = {} THEN <<>> ELSE labels[Max(at)]

\* for c in range(col, -1, -1): if c in labels: ... break
lookup_left(labels, col) ==
    LET at == { c \in DOMAIN labels : c <= col }
    IN  IF at = {} THEN <<>> ELSE labels[Max(at)]

\* range(2, min(56, df.shape[0]))
data_rows(d) == HeaderRows..(Min2(RowLimit, d.nrows) - 1)

\* pd.isna(row[c]) or not str(row[c]).strip()
is_empty(v) == isna(v) \/ strip(v) = <<>>

\* a management cell that is missing keeps the text of the row above (a faulty variant)
management_field_carried(d, r, c) ==
    IF isna(iloc(d, r, c))
    THEN (IF isna(iloc(d, r - 1, c)) THEN <<>> ELSE strip(iloc(d, r - 1, c)))
    ELSE strip(iloc(d, r, c))

\* str(row[c]).strip() if not pd.isna(row[c]) else ""
management_field(d, r, c) == IF isna(iloc(d, r, c)) THEN <<>> ELSE strip(iloc(d, r, c))

non_empty(piece) == strip(piece) # <<>>

strip_all(pieces) == [i \in DOMAIN pieces |-> strip(pieces[i])]

\* the names of a cell text: split on "," else on "/", pieces trimmed, empty ones dropped
split_names(person_name) ==
    IF contains(person_name, ",")
    THEN strip_all(SelectSeq(split(person_name, ","), non_empty))
    ELSE IF contains(person_name, "/")
    THEN strip_all(SelectSeq(split(person_name, "/"), non_empty))
    ELSE <<person_name>>

not_placeholder(name) == ~placeholder_pattern(name)

\* the names for which a personnel cell gets a Record
cell_names(cell_value) ==
    IF is_empty(cell_value) THEN <<>>
    ELSE IF placeholder_pattern(strip(cell_value)) THEN <<>>
    ELSE SelectSeq(split_names(strip(cell_value)), not_placeholder)

Record(acct, client_type, leader, manager, sheet_name, role_category, role_name, name) ==
    [account |-> acct, client_type |-> client_type, leader |-> leader,
     atl_manager |-> manager, technology_area |-> sheet_name,
     role_category |-> role_category, role |-> role_name, person |-> name]

\* the Records of a cell, last name first (a faulty variant)
cell_records_reversed(d, cats, rls, r, c) ==
    LET names == cell_names(iloc(d, r, c))
    IN  [i \in DOMAIN names |->
            Record(strip(iloc(d, r, account_col_idx)),
                   management_field(d, r, client_type_col_idx),
                   management_field(d, r, leader_col_idx),
                   management_field(d, r, manager_col_idx),
                   d.name, lookup_left(cats, c), lookup_left(rls, c),
                   names[Len(names) + 1 - i])]

\* the Records appended for the cell in column c of row r
cell_records(d, cats, rls, r, c) ==
    LET names == cell_names(iloc(d, r, c))
    IN  [i \in DOMAIN names |->
            Record(strip(iloc(d, r, account_col_idx)),
                   management_field(d, r, client_type_col_idx),
                   management_field(d, r, leader_col_idx),
                   management_field(d, r, manager_col_idx),
                   d.name, lookup_left(cats, c), lookup_left(rls, c), names[i])]

\* the tally counts the cell once, not its names (a faulty variant)
tally_add_once(tally, acct, n) == [tally EXCEPT ![acct] = @ + (IF n > 0 THEN 1 ELSE 0)]

\* account_personnel_count[account] += n
tally_add(tally, acct, n) == [tally EXCEPT ![acct] = @ + n]

\* if account_name not in account_personnel_count: account_personnel_count[account_name] = 0
tally_init(tally, acct) == IF acct \in DOMAIN tally THEN tally ELSE tally @@ (acct :> 0)

NoTally == [a \in {} |-> 0]

----------------------------------------------------------------------------
(* process_excel_file: the loops *)

has_column(cols, name) == \E i \in DOMAIN cols : cols[i] = name

\* no request served yet
NoRequest == [endpoint |-> "none"]

NoResponse == [status |-> 0]

\* the exception is swallowed and the call returns (a faulty variant)
Raise_swallowed ==
    /\ pc' = "returned"
    /\ UNCHANGED <<wb, sheet_i, row_idx, col_idx, role_categories, roles,
                   account_name, row_personnel_count, full_data,
                   account_personnel_count>>

\* the exception leaves process_excel_file: no Record list is returned
Raise ==
    /\ pc' = "raised"
    /\ UNCHANGED <<wb, sheet_i, row_idx, col_idx, role_categories, roles,
                   account_name, row_personnel_count, full_data,
                   account_personnel_count>>

\* wb = load_workbook(filename=file_path, read_only=True)
Load ==
    /\ pc = "load"
    /\ \/ /\ ~file_ok
          /\ Raise                     \* the file cannot be opened
       \/ /\ file_ok \/ Len(wb) > 0    \* opened; an unreadable sheet fails later
          /\ pc' = "sheet"
          /\ UNCHANGED <<wb, sheet_i, row_idx, col_idx, role_categories, roles,
                         account_name, row_personnel_count, full_data,
                         account_personnel_count>>
    /\ UNCHANGED frameVars
    /\ UNCHANGED ioVars

\* for sheet_name in sheet_names: read the sheet and its two header rows
SheetStart ==
    /\ pc = "sheet"
    /\ sheet_i <= Len(wb)
    /\ \/ /\ ~file_ok
          /\ Raise                     \* pd.read_excel: the sheet cannot be parsed
       \/ /\ file_ok \/ sheet_i < Len(wb)
          /\ IF df.ncols > 0 /\ df.nrows < HeaderRows
             THEN Raise                 \* df.iloc[0, col] / df.iloc[1, col]: IndexError
             ELSE /\ role_categories' = header_labels(df, 0)
                  /\ roles' = header_labels(df, 1)
                  /\ row_idx' = HeaderRows
                  /\ pc' = "row"
                  /\ UNCHANGED <<wb, sheet_i, col_idx, account_name,
                                 row_personnel_count, full_data,
                                 account_personnel_count>>
    /\ UNCHANGED frameVars
    /\ UNCHANGED ioVars

\* for row_idx in data_rows: the account cell and the management cells
RowStart ==
    /\ pc = "row"
    /\ row_idx \in data_rows(df)
    /\ IF df.ncols <= account_col_idx
       THEN Raise                       \* row[account_col_idx]: KeyError
       ELSE IF is_empty(iloc(df, row_idx, account_col_idx))
       THEN /\ row_idx' = row_idx + 1   \* continue
            /\ UNCHANGED <<wb, pc, sheet_i, col_idx, role_categories, roles,
                           account_name, row_personnel_count, full_data,
                           account_personnel_count>>
       ELSE IF df.ncols <= manager_col_idx
       THEN Raise                       \* row[client_type_col_idx] ...: KeyError
       ELSE /\ account_name' = strip(iloc(df, row_idx, account_col_idx))
            /\ account_personnel_count' =
                   tally_init(account_personnel_count, account_name')
            /\ row_personnel_count' = 0
            /\ col_idx' = FirstPersonnelCol
            /\ pc' = "cell"
            /\ UNCHANGED <<wb, sheet_i, row_idx, role_categories, roles, full_data>>
    /\ UNCHANGED frameVars
    /\ UNCHANGED ioVars

\* for col_idx in range(7, df.shape[1]): one personnel cell
Cell ==
    /\ pc = "cell"
    /\ col_idx < df.ncols
    /\ LET emitted == cell_records(df, role_categories, roles, row_idx, col_idx)
       IN  /\ full_data' = full_data \o emitted
           /\ row_personnel_count' = row_personnel_count + Len(emitted)
           /\ account_personnel_count' =
                  tally_add(account_personnel_count, account_name, Len(emitted))
    /\ col_idx' = col_idx + 1
    /\ UNCHANGED <<wb, pc, sheet_i, row_idx, role_categories, roles, account_name>>
    /\ UNCHANGED frameVars
    /\ UNCHANGED ioVars

\* the column loop is over: the next row
RowEnd ==
    /\ pc = "cell"
    /\ col_idx >= df.ncols
    /\ row_idx' = row_idx + 1
    /\ pc' = "row"
    /\ UNCHANGED <<wb, sheet_i, col_idx, role_categories, roles, account_name,
                   row_personnel_count, full_data, account_personnel_count>>
    /\ UNCHANGED frameVars
    /\ UNCHANGED ioVars

\* the row loop is over: the next sheet
SheetEnd ==
    /\ pc = "row"
    /\ row_idx \notin data_rows(df)
    /\ sheet_i' = sheet_i + 1
    /\ pc' = "sheet"
    /\ UNCHANGED <<wb, row_idx, col_idx, role_categories, roles, account_name,
                   row_personnel_count, full_data, account_personnel_count>>
    /\ UNCHANGED frameVars
    /\ UNCHANGED ioVars

\* a DataFrame built from a list of Records has their fields as columns, none when empty
RecordColumns ==
    <<"account", "client_type", "leader", "atl_manager", "technology_area",
      "role_category", "role", "person">>

frame_columns(records) == IF records = <<>> THEN <<>> ELSE RecordColumns

\* return pd.DataFrame(full_data)
Return ==
    /\ pc = "sheet"
    /\ sheet_i > Len(wb)
    /\ pc' = "returned"
    /\ data_frame' = full_data
    /\ columns' = frame_columns(full_data)
    /\ allocation' = <<>>
    /\ UNCHANGED <<wb, sheet_i, row_idx, col_idx, role_categories, roles,
                   account_name, row_personnel_count, full_data,
                   account_personnel_count, runs>>
    /\ UNCHANGED ioVars

Init ==
    /\ file_ok \in BOOLEAN
    /\ wb \in (IF file_ok THEN Workbooks ELSE UnreadableWorkbooks)
    /\ pc = "load"
    /\ request = NoRequest
    /\ response = NoResponse
    /\ handlers = NoHandlers
    /\ sheet_i = 1
    /\ row_idx = 0
    /\ col_idx = 0
    /\ role_categories = NoLabels
    /\ roles = NoLabels
    /\ account_name = <<>>
    /\ row_personnel_count = 0
    /\ full_data = <<>>
    /\ account_personnel_count = NoTally
    /\ data_frame = <<>>
    /\ allocation = <<>>
    /\ columns = <<>>
    /\ runs = 0

\* the call returned: the rest of the try block of __main__, which reads
\* data['account'] and so ends in the except branch when the frame has no columns
MainLoaded ==
    /\ pc = "returned"
    /\ pc' = "serving"
    /\ IF has_column(columns, "account")
       THEN UNCHANGED <<data_frame, columns, allocation>>
       ELSE /\ data_frame' = <<>>       \* data = pd.DataFrame()
            /\ columns' = <<>>
            /\ allocation' = <<>>
    /\ UNCHANGED <<wb, sheet_i, row_idx, col_idx, role_categories, roles,
                   account_name, row_personnel_count, full_data,
                   account_personnel_count, runs>>
    /\ UNCHANGED ioVars

\* except Exception: data = pd.DataFrame()
MainExcept ==
    /\ pc = "raised"
    /\ pc' = "serving"
    /\ data_frame' = <<>>
    /\ columns' = <<>>
    /\ allocation' = <<>>
    /\ UNCHANGED <<wb, sheet_i, row_idx, col_idx, role_categories, roles,
                   account_name, row_personnel_count, full_data,
                   account_personnel_count, runs>>
    /\ UNCHANGED ioVars

Next ==
    \/ Load \/ SheetStart \/ RowStart \/ Cell \/ RowEnd \/ SheetEnd \/ Return
    \/ MainLoaded \/ MainExcept

Spec == Init /\ [][Next]_vars

----------------------------------------------------------------------------
(* calculate_fte_allocations *)

\* the person's Records counted instead of the distinct accounts (a faulty variant)
person_record_counts(rows, person) ==
    Cardinality({ j \in DOMAIN rows : rows[j].person = person })

\* data_frame.groupby('person')['account'].nunique(), for one person
person_account_counts(rows, person) ==
    Cardinality({ rows[i].account : i \in { j \in DOMAIN rows : rows[j].person = person } })

\* 1.0 / count, kept as the fraction num/den
Fraction(num, den) == [num |-> num, den |-> den]

\* the last Record is left without a value (a faulty variant)
allocation_column_but_last(rows) ==
    [i \in 1..(Len(rows) - 1) |->
        [num |-> 1,
         den |-> Cardinality({ rows[k].account :
                                 k \in { j \in DOMAIN rows : rows[j].person = rows[i].person } })]]

\* a column already present divided again instead of recomputed (a faulty variant)
allocation_column_again(rows) ==
    [i \in DOMAIN rows |->
        LET n == Cardinality({ rows[k].account :
                                 k \in { j \in DOMAIN rows : rows[j].person = rows[i].person } })
        IN  IF i \in DOMAIN allocation
            THEN [num |-> allocation[i].num, den |-> allocation[i].den * n]
            ELSE [num |-> 1, den |-> n]]

\* allocation_dict and data_frame['person'].map(allocation_dict)
allocation_column(rows) ==
    [i \in DOMAIN rows |-> Fraction(1, person_account_counts(rows, rows[i].person))]

\* assigning a column: replaced in place when present, else appended as the last one
with_column(cols, name) ==
    IF \E i \in DOMAIN cols : cols[i] = name THEN cols ELSE Append(cols, name)

\* calculate_fte_allocations(data_frame), called on the frame as it is
Annotate ==
    /\ pc = "annotate"
    /\ runs < MaxRuns
    /\ IF ~has_column(columns, "person")
       THEN /\ pc' = "raised"          \* groupby('person'): KeyError
            /\ UNCHANGED <<allocation, columns, runs>>
       ELSE /\ allocation' = allocation_column(data_frame)
            /\ columns' = with_column(columns, "allocation")
            /\ runs' = runs + 1
            /\ pc' = pc
    /\ UNCHANGED <<wb, sheet_i, row_idx, col_idx, role_categories, roles,
                   account_name, row_personnel_count, full_data,
                   account_personnel_count, data_frame>>
    /\ UNCHANGED ioVars

\* Record lists given to the annotator
AllocRecords ==
    { Record(acct, Enterprise, Li, <<>>, "Data", Data, Lead, person) :
        acct \in {RBC, TD, BMO}, person \in {Al, Bo} }
      \cup { Record(RBC, Enterprise, Li, <<>>, "Infra", Data, Arch, Al) }

RECURSIVE RecordLists(_)
RecordLists(n) ==
    IF n = 0 THEN {<<>>}
    ELSE LET shorter == RecordLists(n - 1)
         IN  shorter \cup
             { Append(l, r) : l \in {x \in shorter : Len(x) = n - 1}, r \in AllocRecords }

\* the allocation column is absent, or holds values of an earlier computation
StaleAllocations(rows) ==
    { [i \in DOMAIN rows |-> f] : f \in {Fraction(1, 1), Fraction(1, 5)} }

InitAlloc ==
    /\ file_ok = TRUE
    /\ request = NoRequest
    /\ response = NoResponse
    /\ handlers = NoHandlers
    /\ wb = <<>>
    /\ pc = "annotate"
    /\ sheet_i = 1
    /\ row_idx = 0
    /\ col_idx = 0
    /\ role_categories = NoLabels
    /\ roles = NoLabels
    /\ account_name = <<>>
    /\ row_personnel_count = 0
    /\ full_data = <<>>
    /\ account_personnel_count = NoTally
    /\ data_frame \in RecordLists(MaxRecords)
    /\ \E stale \in BOOLEAN :
          IF stale /\ data_frame # <<>>
          THEN /\ allocation \in StaleAllocations(data_frame)
               /\ columns = Append(RecordColumns, "allocation")
          ELSE /\ allocation = <<>>
               /\ columns = frame_columns(data_frame)
    /\ runs = 0

NextAlloc == Annotate

SpecAlloc == InitAlloc /\ [][NextAlloc]_vars

----------------------------------------------------------------------------
(* The endpoints: each request is served from the global frame `data` *)

\* the Records of the datasets served
ServedRecords ==
    { Record(RBC, Enterprise, Li, <<>>, "Data", Data, Lead, Al),
      Record(TD, Enterprise, Mo, <<>>, "Infra", Data, Arch, Bo) }

RECURSIVE ServedLists(_)
ServedLists(n) ==
    IF n = 0 THEN {<<>>}
    ELSE LET shorter == ServedLists(n - 1)
         IN  shorter \cup
             { Append(l, r) : l \in {x \in shorter : Len(x) = n - 1}, r \in ServedRecords }

\* one person with two Records on one account and one on another
SharedPersonDataset ==
    <<Record(RBC, Enterprise, Li, <<>>, "Data", Data, Lead, Al),
      Record(RBC, Enterprise, Li, <<>>, "Infra", Data, Arch, Al),
      Record(TD, Enterprise, Mo, <<>>, "Data", Data, Lead, Al)>>

\* the query parameters of the requests; <<>> and "" are an absent or empty parameter
AccountFilters == { <<>>, <<"r", "b">>, <<".">>, <<"(">> }

TechnologyFilters == { "", "Data", "data" }

RoleFilters == { <<>>, <<"a", "r">> }

PersonFilters == { <<>>, <<"b">> }

LeaderFilters == { <<>>, <<"m">> }

\* re.compile(pat) of str.contains: a "(" that is never closed is an error
\* (the patterns served are made of letters, "." and "(")
compiles(pat) == ~contains(pat, "(")

\* the pattern matches the text from position k on: "." is any character, case ignored
matches_at(pat, text, k) ==
    \A i \in DOMAIN pat : pat[i] = "." \/ LowerChar(pat[i]) = LowerChar(text[k + i - 1])

\* Series.str.contains(pat, case=False) for one value: a regular expression search
str_contains(text, pat) ==
    \E k \in 1..(Len(text) - Len(pat) + 1) : matches_at(pat, text, k)

\* frame[frame[column].str.contains(pat, case=False)], as the kept row positions
select_contains(rows, kept, column, pat) ==
    LET keep(i) == str_contains(rows[i][column], pat)
    IN  SelectSeq(kept, keep)

\* frame[frame['technology_area'] == tech_filter], as the kept row positions
select_equal(rows, kept, column, value) ==
    LET keep(i) == rows[i][column] = value
    IN  SelectSeq(kept, keep)

\* a filter that is applied raises: KeyError for a missing column, re.error for the pattern
contains_raises(cols, column, pat) ==
    pat # <<>> /\ (~has_column(cols, column) \/ ~compiles(pat))

equal_raises(cols, column, value) == value # "" /\ ~has_column(cols, column)

\* the filters of get_data, each applied only when its parameter is non-empty
data_filters_raise(cols, req) ==
    \/ contains_raises(cols, "account", req.account)
    \/ equal_raises(cols, "technology_area", req.technology)
    \/ contains_raises(cols, "role", req.role)
    \/ contains_raises(cols, "person", req.person)
    \/ contains_raises(cols, "leader", req.leader)

data_filters(rows, req) ==
    LET all == [i \in DOMAIN rows |-> i]
        by_account == IF req.account = <<>> THEN all
                      ELSE select_contains(rows, all, "account", req.account)
        by_tech == IF req.technology = "" THEN by_account
                   ELSE select_equal(rows, by_account, "technology_area", req.technology)
        by_role == IF req.role = <<>> THEN by_tech
                   ELSE select_contains(rows, by_tech, "role", req.role)
        by_person == IF req.person = <<>> THEN by_role
                     ELSE select_contains(rows, by_role, "person", req.person)
    IN  IF req.leader = <<>> THEN by_person
        ELSE select_contains(rows, by_person, "leader", req.leader)

\* the filters of export_csv: no leader parameter is read
csv_filters_raise(cols, req) ==
    \/ contains_raises(cols, "account", req.account)
    \/ equal_raises(cols, "technology_area", req.technology)
    \/ contains_raises(cols, "role", req.role)
    \/ contains_raises(cols, "person", req.person)

csv_filters(rows, req) ==
    LET all == [i \in DOMAIN rows |-> i]
        by_account == IF req.account = <<>> THEN all
                      ELSE select_contains(rows, all, "account", req.account)
        by_tech == IF req.technology = "" THEN by_account
                   ELSE select_equal(rows, by_account, "technology_area", req.technology)
        by_role == IF req.role = <<>> THEN by_tech
                   ELSE select_contains(rows, by_tech, "role", req.role)
    IN  IF req.person = <<>> THEN by_role
        ELSE select_contains(rows, by_role, "person", req.person)

\* the kept rows of the frame: their Records and their allocation values when annotated
kept_rows(rows, kept) == [j \in DOMAIN kept |-> rows[kept[j]]]

kept_allocation(alloc, kept) ==
    IF alloc = <<>> THEN <<>> ELSE [j \in DOMAIN kept |-> alloc[kept[j]]]

\* an unhandled exception of a view: the response is an error
ServerError == [status |-> 500]

Request(endpoint, a, t, ro, p, l) ==
    [endpoint |-> endpoint, account |-> a, technology |-> t, role |-> ro,
     person |-> p, leader |-> l]

\* jsonify(filtered_data.to_dict(orient='records'))
data_response(rows, alloc, cols, req) ==
    IF data_filters_raise(cols, req) THEN ServerError
    ELSE LET kept == data_filters(rows, req)
         IN  [status |-> 200,
              rows |-> kept_rows(rows, kept),
              allocation |-> kept_allocation(alloc, kept)]

\* filtered_data.to_csv(index=False): the header line is the columns of the frame
csv_response(rows, alloc, cols, req) ==
    IF csv_filters_raise(cols, req) THEN ServerError
    ELSE LET kept == csv_filters(rows, req)
         IN  [status |-> 200,
              header |-> cols,
              rows |-> kept_rows(rows, kept),
              allocation |-> kept_allocation(alloc, kept)]

\* sorted(data[column].unique().tolist()): the distinct values (their order is fixed by the sort)
unique(rows, column) == { rows[i][column] : i \in DOMAIN rows }

filters_response(rows, cols) ==
    IF ~has_column(cols, "account") THEN ServerError      \* data['account']: KeyError
    ELSE [status |-> 200,
          accounts |-> unique(rows, "account"),
          technologies |-> unique(rows, "technology_area"),
          roles |-> unique(rows, "role"),
          role_categories |-> unique(rows, "role_category"),
          leaders |-> unique(rows, "leader"),
          managers |-> unique(rows, "atl_manager")]

\* round(num / den, 1) in tenths, a tie going to the even tenth
round_tenths(num, den) ==
    LET q == (10 * num) \div den
        rest == (10 * num) % den
    IN  IF 2 * rest > den THEN q + 1
        ELSE IF 2 * rest = den THEN q + (q % 2)
        ELSE q

\* data.groupby('account').size()
account_counts(rows) ==
    [a \in unique(rows, "account") |->
        Cardinality({ i \in DOMAIN rows : rows[i].account = a })]

stats_response(rows, cols) ==
    IF ~has_column(cols, "account") THEN ServerError      \* data['account']: KeyError
    ELSE IF rows = <<>> THEN ServerError                  \* idxmax of nothing: ValueError
    ELSE LET total_accounts == Cardinality(unique(rows, "account"))
             total_people == Len(rows)
         IN  [status |-> 200,
              total_accounts |-> total_accounts,
              total_people |-> total_people,
              avg_per_account |->
                  IF total_accounts > 0 THEN round_tenths(total_people, total_accounts)
                  ELSE 0,
              top_account_count |->
                  Max({ account_counts(rows)[a] : a \in unique(rows, "account") })]

\* a request leaves the extraction and the file as they are
Served ==
    /\ pc = "serving"
    /\ UNCHANGED <<wb, pc, sheet_i, row_idx, col_idx, role_categories, roles,
                   account_name, row_personnel_count, full_data,
                   account_personnel_count, file_ok, handlers>>

\* GET /api/data
get_data ==
    /\ Served
    /\ \E a \in AccountFilters, t \in TechnologyFilters, ro \in RoleFilters,
          p \in PersonFilters, l \in LeaderFilters :
          request' = Request("get_data", a, t, ro, p, l)
    /\ response' = data_response(data_frame, allocation, columns, request')
    /\ UNCHANGED frameVars

\* GET /api/export/csv
export_csv ==
    /\ Served
    /\ \E a \in AccountFilters, t \in TechnologyFilters, ro \in RoleFilters,
          p \in PersonFilters, l \in LeaderFilters :
          request' = Request("export_csv", a, t, ro, p, l)
    /\ response' = csv_response(data_frame, allocation, columns, request')
    /\ UNCHANGED frameVars

\* GET /api/filters
get_filters ==
    /\ Served
    /\ request' = [endpoint |-> "get_filters"]
    /\ response' = filters_response(data_frame, columns)
    /\ UNCHANGED frameVars

\* GET /api/stats
get_stats ==
    /\ Served
    /\ request' = [endpoint |-> "get_stats"]
    /\ response' = stats_response(data_frame, columns)
    /\ UNCHANGED frameVars

\* the three views that begin with
\* if 'allocation' not in data.columns: calculate_fte_allocations(data)
FteEndpoints == { "visualize_accounts_fte", "visualize_technologies_fte",
                  "account_details_fte" }

RECURSIVE gcd(_, _)
gcd(a, b) == IF b = 0 THEN a ELSE gcd(b, a % b)

\* the sum of two allocation values, as a fraction in lowest terms
fraction_add(x, y) ==
    LET num == x.num * y.den + y.num * x.den
        den == x.den * y.den
    IN  Fraction(num \div gcd(num, den), den \div gcd(num, den))

RECURSIVE fraction_sum(_, _)
\* frame['allocation'].sum() over the rows at the positions in kept
fraction_sum(alloc, kept) ==
    IF kept = {} THEN Fraction(0, 1)
    ELSE LET i == CHOOSE k \in kept : TRUE
         IN  fraction_add(alloc[i], fraction_sum(alloc, kept \ {i}))

\* data.groupby('account')['allocation'].sum()
account_fte(rows, alloc) ==
    [a \in unique(rows, "account") |->
        fraction_sum(alloc, { i \in DOMAIN rows : rows[i].account = a })]

\* data.groupby(['account', 'technology_area'])['allocation'].sum()
technology_fte(rows, alloc) ==
    [g \in { <<rows[i].account, rows[i].technology_area>> : i \in DOMAIN rows } |->
        fraction_sum(alloc, { i \in DOMAIN rows :
                                 /\ rows[i].account = g[1]
                                 /\ rows[i].technology_area = g[2] })]

\* the account names asked of /api/account_details_fte/<account_name>
AccountNames == { RBC, TD, BMO }

FteRequests(endpoint) ==
    IF endpoint = "account_details_fte"
    THEN { [endpoint |-> endpoint, account_name |-> a] : a \in AccountNames }
    ELSE { [endpoint |-> endpoint] }

\* what the view serves once the frame is annotated: the totals of the chart, or the
\* totals of the one account (its breakdowns are sums of the same column)
fte_response(req, rows, alloc) ==
    IF req.endpoint = "visualize_accounts_fte"
    THEN [status |-> 200, fte |-> account_fte(rows, alloc)]
    ELSE IF req.endpoint = "visualize_technologies_fte"
    THEN [status |-> 200, fte |-> technology_fte(rows, alloc)]
    ELSE LET kept == { i \in DOMAIN rows : rows[i].account = req.account_name }
         IN  [status |-> 200,
              account |-> req.account_name,
              total_people |-> Cardinality(kept),
              total_fte |-> fraction_sum(alloc, kept)]

\* GET /api/visualize/accounts_fte and the like: the global frame is annotated in place
fte_endpoint(endpoint) ==
    /\ Served
    /\ request' \in FteRequests(endpoint)
    /\ IF has_column(columns, "allocation")
       THEN /\ response' = fte_response(request', data_frame, allocation)
            /\ UNCHANGED frameVars
       ELSE IF ~has_column(columns, "person")
       THEN /\ response' = ServerError     \* groupby('person'): KeyError
            /\ UNCHANGED frameVars
       ELSE /\ allocation' = allocation_column(data_frame)
            /\ columns' = with_column(columns, "allocation")
            /\ runs' = runs + 1
            /\ response' = fte_response(request', data_frame, allocation')
            /\ UNCHANGED data_frame

\* a thread takes a request to one of the three views
fte_begin(t, endpoint) ==
    /\ pc = "serving"
    /\ handlers[t] = Idle
    /\ \E req \in FteRequests(endpoint) :
          handlers' = [handlers EXCEPT ![t] = [at |-> "check", request |-> req]]
    /\ UNCHANGED <<extractVars, frameVars, file_ok, request, response>>

\* the view goes on to its sums without looking at the columns (a faulty variant)
fte_check_absent(t) ==
    /\ pc = "serving"
    /\ handlers[t].at = "check"
    /\ handlers' = [handlers EXCEPT ![t].at = "respond"]
    /\ UNCHANGED <<extractVars, frameVars, file_ok, request, response>>

\* if 'allocation' not in data.columns:
fte_check(t) ==
    /\ pc = "serving"
    /\ handlers[t].at = "check"
    /\ handlers' = [handlers EXCEPT ![t].at =
                      IF has_column(columns, "allocation") THEN "respond"
                                                            ELSE "calculate"]
    /\ UNCHANGED <<extractVars, frameVars, file_ok, request, response>>

\* calculate_fte_allocations: the counts and allocation_dict of the frame as it is
fte_calculate(t) ==
    /\ pc = "serving"
    /\ handlers[t].at = "calculate"
    /\ IF ~has_column(columns, "person")
       THEN /\ request' = handlers[t].request    \* groupby('person'): KeyError
            /\ response' = ServerError
            /\ handlers' = [handlers EXCEPT ![t] = Idle]
       ELSE /\ handlers' = [handlers EXCEPT ![t] =
                              [at |-> "assign",
                               request |-> handlers[t].request,
                               series |-> allocation_column(data_frame)]]
            /\ UNCHANGED <<request, response>>
    /\ UNCHANGED <<extractVars, frameVars, file_ok>>

\* data_frame['allocation'] = data_frame['person'].map(allocation_dict)
fte_assign(t) ==
    /\ pc = "serving"
    /\ handlers[t].at = "assign"
    /\ allocation' = handlers[t].series
    /\ columns' = with_column(columns, "allocation")
    /\ runs' = runs + 1
    /\ handlers' = [handlers EXCEPT ![t] =
                      [at |-> "respond", request |-> handlers[t].request]]
    /\ UNCHANGED <<extractVars, data_frame, file_ok, request, response>>

\* the sums of the view over the annotated frame, and its answer
fte_respond(t) ==
    /\ pc = "serving"
    /\ handlers[t].at = "respond"
    /\ request' = handlers[t].request
    /\ response' = fte_response(handlers[t].request, data_frame, allocation)
    /\ handlers' = [handlers EXCEPT ![t] = Idle]
    /\ UNCHANGED <<extractVars, frameVars, file_ok>>

\* the application once process_excel_file has returned or raised
InitServe ==
    /\ pc \in {"returned", "raised"}
    /\ file_ok \in BOOLEAN
    /\ pc = "returned" => file_ok
    /\ data_frame \in (IF pc = "returned"
                        THEN ServedLists(MaxServed) \cup {SharedPersonDataset}
                        ELSE {<<>>})
    /\ full_data = data_frame
    /\ columns = frame_columns(data_frame)
    /\ allocation = <<>>
    /\ runs = 0
    /\ request = NoRequest
    /\ response = NoResponse
    /\ handlers = NoHandlers
    /\ wb = <<>>
    /\ sheet_i = 1
    /\ row_idx = 0
    /\ col_idx = 0
    /\ role_categories = NoLabels
    /\ roles = NoLabels
    /\ account_name = <<>>
    /\ row_personnel_count = 0
    /\ account_personnel_count = NoTally

NextServe ==
    \/ MainLoaded \/ MainExcept
    \/ get_data \/ export_csv \/ get_filters \/ get_stats
    \/ \E endpoint \in FteEndpoints : fte_endpoint(endpoint)

SpecServe == InitServe /\ [][NextServe]_vars

\* the views under the threaded server: the FTE views step by step, each in
\* its thread, between them the views that only read the frame
NextThreads ==
    \/ MainLoaded \/ MainExcept
    \/ get_filters \/ get_stats
    \/ \E t \in Threads, endpoint \in FteEndpoints : fte_begin(t, endpoint)
    \/ \E t \in Threads : fte_check(t)
    \/ \E t \in Threads : fte_calculate(t)
    \/ \E t \in Threads : fte_assign(t)
    \/ \E t \in Threads : fte_respond(t)

SpecThreads == InitServe /\ [][NextThreads]_vars

----------------------------------------------------------------------------
(* The vocabulary of the claims: the cell classes of the specification *)

AllHyphens(s) == s # <<>> /\ \A i \in DOMAIN s : s[i] = "-"

\* exactly "TBD", "N/A", "None", "Select" or a run of hyphens
ListedPlaceholder(s) == s \in {TBD, N_A, None, Select} \/ AllHyphens(s)

\* a placeholder in any letter case
AnyCasePlaceholder(s) ==
    Lower(s) \in {Lower(TBD), Lower(N_A), Lower(None), Lower(Select)} \/ AllHyphens(s)

EmptyCell(v) == v = NaN \/ strip(v) = <<>>

IsRealName(piece) == strip(piece) # <<>> /\ ~AnyCasePlaceholder(strip(piece))

\* the names of a cell that is neither empty nor a placeholder (any case)
NamesOfCell(v) ==
    IF EmptyCell(v) \/ AnyCasePlaceholder(strip(v)) THEN <<>>
    ELSE IF contains(strip(v), ",") THEN SelectSeq(split(strip(v), ","), IsRealName)
    ELSE IF contains(strip(v), "/") THEN SelectSeq(split(strip(v), "/"), IsRealName)
    ELSE <<strip(v)>>

RECURSIVE NamesInRow(_, _, _)
\* the number of names in the personnel cells of row r, columns c and up
NamesInRow(d, r, c) ==
    IF c >= d.ncols THEN 0
    ELSE Len(NamesOfCell(iloc(d, r, c))) + NamesInRow(d, r, c + 1)

HasAccount(d, r) ==
    /\ r >= HeaderRows /\ r < d.nrows
    /\ d.ncols > account_col_idx
    /\ ~EmptyCell(iloc(d, r, account_col_idx))

LastN(seq, n) == SubSeq(seq, Len(seq) - n + 1, Len(seq))

\* the Records a step appended
Appended == { i \in DOMAIN full_data' : i > Len(full_data) }

\* the step processes the personnel cell at (row_idx, col_idx)
AtCell == pc = "cell" /\ col_idx < df.ncols

----------------------------------------------------------------------------
(* C1.  No loss: every data row with a non-empty account emits as many      *)
(* Records as its personnel cells, neither empty nor placeholder, hold      *)
(* names that are neither empty nor placeholders; this is stated when the   *)
(* column loop of a row is over and, for the rows the loop never visits,    *)
(* when the row loop of the sheet is over.                                  *)
C1_NoLoss ==
    /\ (pc = "cell" /\ col_idx >= df.ncols)
          => row_personnel_count = NamesInRow(df, row_idx, FirstPersonnelCol)
    /\ (pc = "row" /\ row_idx \notin data_rows(df))
          => \A r \in row_idx..(df.nrows - 1) :
                HasAccount(df, r) => NamesInRow(df, r, FirstPersonnelCol) = 0

----------------------------------------------------------------------------
(* C2.  Placeholder exclusion: the Records of a row are those the row       *)
(* would give with every personnel cell that is exactly TBD, N/A, None,     *)
(* Select or a run of hyphens emptied: such a cell adds nothing and leaves  *)
(* the Records of the other cells of the row as they are.                   *)

IsListedCell(d, r, c) ==
    /\ r >= HeaderRows /\ c >= FirstPersonnelCol
    /\ ~isna(iloc(d, r, c)) /\ ListedPlaceholder(strip(iloc(d, r, c)))

\* the sheet with its listed placeholder cells emptied
Emptied(d) ==
    [d EXCEPT !.cells =
        [p \in DOMAIN d.cells |->
            IF IsListedCell(d, p[1], p[2]) THEN NaN ELSE d.cells[p]]]

RECURSIVE RowRecords(_, _, _, _, _, _)
\* the Records of row r from its columns from..(upto - 1)
RowRecords(d, cats, rls, r, from, upto) ==
    IF from >= upto THEN <<>>
    ELSE cell_records(d, cats, rls, r, from)
           \o RowRecords(d, cats, rls, r, from + 1, upto)

C2_PlaceholderExclusion ==
    pc = "cell" =>
        LastN(full_data, row_personnel_count)
          = RowRecords(Emptied(df), role_categories, roles, row_idx,
                       FirstPersonnelCol, col_idx)

C2_Witness ==
    /\ pc = "cell" /\ col_idx = df.ncols
    /\ row_personnel_count > 0
    /\ \E c \in FirstPersonnelCol..(df.ncols - 1) : IsListedCell(df, row_idx, c)

----------------------------------------------------------------------------
(* C3.  Placeholder matching is case-insensitive: the step over a cell      *)
(* whose trimmed value is a placeholder in any letter case appends no       *)
(* Record, and no appended Record has a person that is a placeholder in     *)
(* any letter case.                                                         *)
C3_CaseInsensitivePlaceholder ==
    [][ AtCell =>
          /\ (~isna(iloc(df, row_idx, col_idx))
                /\ AnyCasePlaceholder(strip(iloc(df, row_idx, col_idx))))
                => full_data' = full_data
          /\ \A i \in Appended : ~AnyCasePlaceholder(full_data'[i].person) ]_vars

----------------------------------------------------------------------------
(* C4.  Skip on missing account: no Record and no tally entry has an        *)
(* account that is empty or a placeholder (TBD, N/A, None, Select,          *)
(* hyphens).                                                                *)
C4_SkipMissingAccount ==
    /\ \A a \in DOMAIN account_personnel_count : a # <<>> /\ ~ListedPlaceholder(a)
    /\ \A i \in DOMAIN full_data :
          full_data[i].account # <<>> /\ ~ListedPlaceholder(full_data[i].account)

----------------------------------------------------------------------------
(* C5.  Category inheritance: every Record appended for the cell in column  *)
(* c has as role_category the trimmed non-empty label of row 0 at the       *)
(* greatest column <= c, and the empty string when there is none.           *)

CategoryOf(d, col) ==
    LET labelled == { c \in 0..col : ~EmptyCell(iloc(d, 0, c)) }
    IN  IF labelled = {} THEN <<>> ELSE strip(iloc(d, 0, Max(labelled)))

C5_CategoryInheritance ==
    [][ AtCell =>
          \A i \in Appended : full_data'[i].role_category = CategoryOf(df, col_idx) ]_vars

\* a Record was appended whose category comes from a column to its left
C5_Witness ==
    /\ pc = "cell" /\ col_idx > FirstPersonnelCol
    /\ cell_names(iloc(df, row_idx, col_idx - 1)) # <<>>
    /\ EmptyCell(iloc(df, 0, col_idx - 1))
    /\ full_data # <<>>
    /\ full_data[Len(full_data)].role_category # <<>>

----------------------------------------------------------------------------
(* C6.  Sheet isolation: for a workbook of one well-formed sheet and one    *)
(* sheet without header rows or header labels, in either order, no          *)
(* exception leaves the extraction and the result is exactly the Records    *)
(* of the well-formed sheet.                                                *)

WellFormed(sh) ==
    /\ sh.nrows >= HeaderRows
    /\ sh.ncols > FirstPersonnelCol
    /\ DOMAIN header_labels(sh, 1) # {}

HeaderLess(sh) ==
    \/ sh.nrows < HeaderRows
    \/ DOMAIN header_labels(sh, 0) = {} /\ DOMAIN header_labels(sh, 1) = {}

RECURSIVE SheetRecords(_, _)
\* the Records of the rows r and up of a well-formed sheet
SheetRecords(sh, r) ==
    IF r \notin data_rows(sh) THEN <<>>
    ELSE (IF HasAccount(sh, r)
          THEN RowRecords(sh, header_labels(sh, 0), header_labels(sh, 1), r,
                          FirstPersonnelCol, sh.ncols)
          ELSE <<>>)
           \o SheetRecords(sh, r + 1)

C6_SheetIsolation ==
    \A g, h \in DOMAIN wb :
        (Len(wb) = 2 /\ g # h /\ WellFormed(wb[g]) /\ HeaderLess(wb[h]))
          => /\ pc # "raised"
             /\ pc = "returned" => full_data = SheetRecords(wb[g], HeaderRows)

----------------------------------------------------------------------------
(* C7.  Allocation correctness: after calculate_fte_allocations every       *)
(* Record of a person has allocation 1/n, n the number of distinct          *)
(* accounts among the person's Records; n >= 1 and 0 < allocation <= 1.     *)

DistinctAccounts(rows, person) ==
    Cardinality({ a \in { rows[i].account : i \in DOMAIN rows } :
                    \E i \in DOMAIN rows : rows[i].person = person /\ rows[i].account = a })

C7_AllocationCorrectness ==
    runs >= 1 =>
        /\ DOMAIN allocation = DOMAIN data_frame
        /\ \A i \in DOMAIN data_frame :
              LET n == DistinctAccounts(data_frame, data_frame[i].person)
              IN  /\ n >= 1
                  /\ allocation[i] = [num |-> 1, den |-> n]
                  /\ 0 < allocation[i].num /\ allocation[i].num <= allocation[i].den

\* one person on three accounts and another on a single one
C7_Witness ==
    /\ runs >= 1
    /\ \E i \in DOMAIN allocation : allocation[i] = [num |-> 1, den |-> 3]
    /\ \E i \in DOMAIN allocation : allocation[i] = [num |-> 1, den |-> 1]

----------------------------------------------------------------------------
(* C8.  Idempotent re-annotation: a run of calculate_fte_allocations on an  *)
(* annotated list leaves every allocation as it was, and whatever the       *)
(* allocation column held before a run, the run gives each Record 1 over    *)
(* the number of distinct accounts of its person.                           *)
C8_IdempotentAnnotation ==
    [][ runs' = runs + 1 =>
          /\ runs >= 1 => allocation' = allocation
          /\ \A i \in DOMAIN data_frame :
                allocation'[i].num * DistinctAccounts(data_frame, data_frame[i].person)
                  = allocation'[i].den ]_vars

\* a second run over a list in which a person has several accounts
C8_Witness ==
    /\ runs = 2
    /\ \E i \in DOMAIN allocation : allocation[i].den >= 2

----------------------------------------------------------------------------
(* C9.  Record invariant: at every point of the extraction every Record     *)
(* has a person that is non-empty, trimmed and no placeholder (in any       *)
(* letter case), and an account that is non-empty and trimmed.              *)
C9_RecordInvariant ==
    \A i \in DOMAIN full_data :
        /\ full_data[i].person # <<>>
        /\ strip(full_data[i].person) = full_data[i].person
        /\ ~AnyCasePlaceholder(full_data[i].person)
        /\ full_data[i].account # <<>>
        /\ strip(full_data[i].account) = full_data[i].account

----------------------------------------------------------------------------
(* C10.  No double counting: the Record list holds at most one Record for   *)
(* each (technology_area, account, role, person).                           *)

RecordKey(rec) == <<rec.technology_area, rec.account, rec.role, rec.person>>

C10_NoDoubleCounting ==
    \A i, j \in DOMAIN full_data :
        i # j => RecordKey(full_data[i]) # RecordKey(full_data[j])

----------------------------------------------------------------------------
(* C11.  Stable emission order: every step leaves the Records emitted so    *)
(* far in place and only appends; what a step appends comes from the cell   *)
(* at (sheet, row, column) the loops stand on, in the order of the pieces   *)
(* of that cell; and that position never goes back and is past the cell     *)
(* once the cell is done, so a Record of an earlier sheet, an earlier row   *)
(* or a lower column precedes a Record of a later one.                      *)

IsPrefix(a, b) == Len(a) <= Len(b) /\ SubSeq(b, 1, Len(a)) = a

\* the trimmed pieces of a cell, in their order in the cell
PiecesOfCell(v) ==
    IF EmptyCell(v) THEN <<>>
    ELSE IF contains(strip(v), ",") THEN strip_all(split(strip(v), ","))
    ELSE IF contains(strip(v), "/") THEN strip_all(split(strip(v), "/"))
    ELSE <<strip(v)>>

\* where the loops stand: the sheet, the row once a row is entered, the column
\* once a cell is entered
Position ==
    <<sheet_i,
      IF pc = "sheet" THEN 0 ELSE row_idx,
      IF pc = "cell" THEN col_idx ELSE 0>>

LexLess(p, q) ==
    \/ p[1] < q[1]
    \/ p[1] = q[1] /\ p[2] < q[2]
    \/ p[1] = q[1] /\ p[2] = q[2] /\ p[3] < q[3]

\* the persons a step appended, in the order of the list
AppendedPersons ==
    [i \in 1..(Len(full_data') - Len(full_data)) |->
        full_data'[Len(full_data) + i].person]

InPieceOrder ==
    LET WasAppended(piece) == \E i \in DOMAIN AppendedPersons : AppendedPersons[i] = piece
    IN  AppendedPersons = SelectSeq(PiecesOfCell(iloc(df, row_idx, col_idx)), WasAppended)

C11_StableEmissionOrder ==
    [][/\ IsPrefix(full_data, full_data')
       /\ full_data' # full_data =>
             /\ AtCell /\ InPieceOrder
             /\ \A i \in Appended : full_data'[i].technology_area = df.name
             /\ LexLess(Position, Position')
       /\ Position' = Position \/ LexLess(Position, Position')]_vars

\* Records of two sheets, of two rows of one sheet, of two columns of one row
\* and of one cell with two names
C11_Witness ==
    /\ pc = "returned"
    /\ \E i, j \in DOMAIN full_data :
          i < j /\ full_data[i].technology_area # full_data[j].technology_area
    /\ \E i, j \in DOMAIN full_data :
          /\ i < j
          /\ full_data[i].technology_area = full_data[j].technology_area
          /\ full_data[i].account # full_data[j].account
    /\ \E i, j \in DOMAIN full_data :
          /\ i < j
          /\ full_data[i].technology_area = full_data[j].technology_area
          /\ full_data[i].account = full_data[j].account
          /\ full_data[i].role # full_data[j].role
    /\ \E i \in DOMAIN full_data :
          /\ i + 1 \in DOMAIN full_data
          /\ full_data[i].person # full_data[i + 1].person
          /\ full_data[i].technology_area = full_data[i + 1].technology_area
          /\ full_data[i].account = full_data[i + 1].account
          /\ full_data[i].role = full_data[i + 1].role

----------------------------------------------------------------------------
(* C12.  Name splitting: the step on a personnel cell that is neither       *)
(* empty nor a placeholder appends one Record per piece of the cell that    *)
(* is neither empty nor a placeholder, the pieces being those between       *)
(* commas when the cell has a comma, else those between slashes when it     *)
(* has a slash, else the whole cell, each trimmed and in cell order.        *)

SplitCell(v) == ~EmptyCell(v) /\ ~AnyCasePlaceholder(strip(v))

C12_NameSplitting ==
    [][(AtCell /\ SplitCell(iloc(df, row_idx, col_idx)))
          => AppendedPersons =
                SelectSeq(PiecesOfCell(iloc(df, row_idx, col_idx)), IsRealName)]_vars

----------------------------------------------------------------------------
(* C13.  The scenario of the specification: the extraction of the           *)
(* workbook holding the one sheet "Infrastructure" returns, and returns     *)
(* exactly one Record: person A.Lee, role AWS Lead, category Cloud,         *)
(* account RBC, technology area Infrastructure.                             *)
C13_Scenario ==
    wb = <<InfrastructureSheet>> =>
        /\ pc # "raised"
        /\ pc = "returned" =>
              /\ Len(full_data) = 1
              /\ full_data[1].person = ALee
              /\ full_data[1].role = AWSLead
              /\ full_data[1].role_category = Cloud
              /\ full_data[1].account = RBC
              /\ full_data[1].technology_area = "Infrastructure"

----------------------------------------------------------------------------
(* C14.  Empty result is not an error: the extraction of a readable         *)
(* workbook none of whose sheets has a data row with a non-empty account    *)
(* and a name in a personnel cell (so also of a workbook without sheets     *)
(* or with empty sheets only) raises nothing and returns no Record.         *)

NothingToExtract(book) ==
    \A s \in DOMAIN book : \A r \in 0..(book[s].nrows - 1) :
        HasAccount(book[s], r) => NamesInRow(book[s], r, FirstPersonnelCol) = 0

C14_EmptyResultNoError ==
    (file_ok /\ NothingToExtract(wb)) =>
        /\ pc # "raised"
        /\ pc = "returned" => full_data = <<>>

----------------------------------------------------------------------------
(* C15.  Workbook unreadable is fatal: when the file cannot be opened, or   *)
(* one of its sheets cannot be parsed, process_excel_file never returns;    *)
(* the exception leaves it and no Record reaches the caller, neither as a   *)
(* returned frame nor as the dataset served afterwards.                     *)
C15_UnreadableIsFatal ==
    ~file_ok =>
        /\ pc # "returned"
        /\ data_frame = <<>> /\ columns = <<>>

\* the second sheet could not be parsed after the first one gave Records
C15_Witness ==
    /\ ~file_ok
    /\ pc = "raised"
    /\ sheet_i = 2
    /\ full_data # <<>>

----------------------------------------------------------------------------
(* C16.  Filtering contract of /api/data: the response to a request on a    *)
(* dataset with Records is a success and holds, in dataset order, exactly   *)
(* the Records that pass every non-empty filter: account, role, person and  *)
(* leader when the filter text occurs in the field as a literal substring,  *)
(* letter case ignored, technology when the field equals the filter text.   *)

\* pat occurs in text character for character, letter case ignored
LiteralIn(text, pat) ==
    \E k \in 1..(Len(text) - Len(pat) + 1) :
        \A i \in DOMAIN pat : LowerChar(pat[i]) = LowerChar(text[k + i - 1])

Passes(rec, req) ==
    /\ req.account = <<>> \/ LiteralIn(rec.account, req.account)
    /\ req.technology = "" \/ rec.technology_area = req.technology
    /\ req.role = <<>> \/ LiteralIn(rec.role, req.role)
    /\ req.person = <<>> \/ LiteralIn(rec.person, req.person)
    /\ req.leader = <<>> \/ LiteralIn(rec.leader, req.leader)

Passing(rows, req) ==
    LET passes(rec) == Passes(rec, req)
    IN  SelectSeq(rows, passes)

C16_FilteringContract ==
    (request.endpoint = "get_data" /\ data_frame # <<>>) =>
        /\ response.status = 200
        /\ response.rows = Passing(data_frame, request)

----------------------------------------------------------------------------
(* C17.  CSV export serializes the filtered sequence: the response to an    *)
(* export request succeeds or fails as /api/data does for the same          *)
(* parameters (account, technology, role, person, leader), and its rows     *)
(* are the Records /api/data returns for them, in the same order.           *)
C17_ExportMatchesData ==
    request.endpoint = "export_csv" =>
        LET same == data_response(data_frame, allocation, columns, request)
        IN  /\ response.status = same.status
            /\ response.status = 200 => response.rows = same.rows

----------------------------------------------------------------------------
(* C18.  Fixed CSV header: whatever requests were served before, the        *)
(* header of a successful export of a dataset with Records is the list of   *)
(* the eight Record field names.                                            *)
C18_FixedCsvHeader ==
    (request.endpoint = "export_csv" /\ response.status = 200 /\ data_frame # <<>>) =>
        response.header =
            <<"account", "client_type", "leader", "atl_manager", "technology_area",
              "role_category", "role", "person">>

----------------------------------------------------------------------------
(* C19.  Graceful empty dataset: served from a dataset without Records,     *)
(* /api/filters succeeds with every list empty and /api/stats succeeds      *)
(* with zero accounts, zero people and an average of 0.                     *)
C19_GracefulEmptyDataset ==
    (pc = "serving" /\ data_frame = <<>>) =>
        /\ request.endpoint = "get_filters" =>
              /\ response.status = 200
              /\ response.accounts = {} /\ response.technologies = {}
              /\ response.roles = {} /\ response.role_categories = {}
              /\ response.leaders = {} /\ response.managers = {}
        /\ request.endpoint = "get_stats" =>
              /\ response.status = 200
              /\ response.total_accounts = 0
              /\ response.total_people = 0
              /\ response.avg_per_account = 0

----------------------------------------------------------------------------
(* C20.  Fixed-offset layout: a step appends Records only while it stands   *)
(* on a cell of a row of index 2 or more and of a column of index 7 or      *)
(* more; the person of each is a piece of that cell, the account, client    *)
(* type, leader and manager are the texts of columns 1, 2, 3 and 4 of that  *)
(* row, the category is a label of row 0 and the role a label of row 1      *)
(* (or empty). So no cell of rows 0-1 or of columns 0-6 gives a Record.     *)

\* the trimmed text of a cell, empty when the cell is missing
TextAt(d, r, c) == IF iloc(d, r, c) = NaN THEN <<>> ELSE strip(iloc(d, r, c))

LabelOf(d, r, label) == label = <<>> \/ \E c \in 0..(d.ncols - 1) : TextAt(d, r, c) = label

C20_FixedOffsetLayout ==
    [][full_data' # full_data =>
          /\ pc = "cell" /\ row_idx >= 2 /\ col_idx >= 7
          /\ \A i \in Appended :
                /\ \E k \in DOMAIN PiecesOfCell(iloc(df, row_idx, col_idx)) :
                      full_data'[i].person = PiecesOfCell(iloc(df, row_idx, col_idx))[k]
                /\ full_data'[i].account = TextAt(df, row_idx, 1)
                /\ full_data'[i].client_type = TextAt(df, row_idx, 2)
                /\ full_data'[i].leader = TextAt(df, row_idx, 3)
                /\ full_data'[i].atl_manager = TextAt(df, row_idx, 4)
                /\ LabelOf(df, 0, full_data'[i].role_category)
                /\ LabelOf(df, 1, full_data'[i].role)]_vars

\* the sheet with names all over gave the one Record of its cell (2, 7)
C20_Witness ==
    /\ wb = <<CrowdedSheet>>
    /\ pc = "returned"
    /\ Len(full_data) = 1
    /\ full_data[1].person = Al
    /\ full_data[1].atl_manager = Mo

----------------------------------------------------------------------------
(* C22.  Record field provenance: every Record a step appends has the name  *)
(* of the sheet the step stands on as technology area, and as account,      *)
(* client type, leader and manager the trimmed texts of columns 1, 2, 3     *)
(* and 4 of the row the step stands on, whatever the rows and sheets        *)
(* before it held.                                                          *)
C22_FieldProvenance ==
    [][\A i \in Appended :
          /\ full_data'[i].technology_area = wb[sheet_i].name
          /\ full_data'[i].account = TextAt(wb[sheet_i], row_idx, 1)
          /\ full_data'[i].client_type = TextAt(wb[sheet_i], row_idx, 2)
          /\ full_data'[i].leader = TextAt(wb[sheet_i], row_idx, 3)
          /\ full_data'[i].atl_manager = TextAt(wb[sheet_i], row_idx, 4)]_vars

\* the second row, its client type and manager missing, gave a Record of its own
C22_Witness ==
    /\ wb = <<MixedSheet>>
    /\ Len(full_data) = 2
    /\ full_data[1].leader = Li /\ full_data[1].atl_manager = Mo
    /\ full_data[2].account = TD /\ full_data[2].client_type = <<>>
    /\ full_data[2].leader = Bo /\ full_data[2].atl_manager = <<>>

----------------------------------------------------------------------------
(* C23.  Category scan bounded by the personnel block: a Record of a cell   *)
(* in column c has the empty category when row 0 has no non-blank label in  *)
(* the columns from the first personnel column to c, also when row 0 has a  *)
(* label over a column further left.                                        *)

NoCategoryInBlock(d, c) ==
    \A k \in FirstPersonnelCol..c : TextAt(d, 0, k) = <<>>

C23_CategoryScanBounded ==
    [][(AtCell /\ NoCategoryInBlock(df, col_idx))
          => \A i \in Appended : full_data'[i].role_category = <<>>]_vars

----------------------------------------------------------------------------
(* C24.  Management fields never fail: the step that reads the account      *)
(* and the management cells of a data row with a non-empty account raises   *)
(* nothing and goes on to the personnel cells of the row, also on a sheet   *)
(* of fewer than 5 columns.                                                 *)
C24_ManagementFieldsNeverFail ==
    [][(pc = "row" /\ row_idx \in data_rows(df) /\ HasAccount(df, row_idx))
          => pc' = "cell"]_vars

----------------------------------------------------------------------------
(* C25.  All rows from index 2 on are data rows: when the row loop of a     *)
(* sheet is over, every name of every personnel cell of every row of        *)
(* index 2 or more with a non-empty account, whatever the index, has its    *)
(* Record in the accumulated list.                                          *)

HasRecord(d, r, name) ==
    \E i \in DOMAIN full_data :
        /\ full_data[i].technology_area = d.name
        /\ full_data[i].account = TextAt(d, r, account_col_idx)
        /\ full_data[i].person = strip(name)

RowContributes(d, r) ==
    \A c \in FirstPersonnelCol..(d.ncols - 1) :
        \A k \in DOMAIN NamesOfCell(iloc(d, r, c)) :
            HasRecord(d, r, NamesOfCell(iloc(d, r, c))[k])

C25_AllRowsAreData ==
    (pc = "row" /\ row_idx \notin data_rows(df)) =>
        \A r \in HeaderRows..(df.nrows - 1) : HasAccount(df, r) => RowContributes(df, r)

----------------------------------------------------------------------------
(* C26.  Tally consistency: after every step the tally of each account is   *)
(* the number of Records of that account in the accumulated list, over all  *)
(* sheets, every Record's account has a tally, the tallies add up to the    *)
(* length of the list, and no step removes or lowers a tally; so an         *)
(* account with a data row and no personnel has the tally 0.                *)

RecordsOf(a) == Cardinality({ i \in DOMAIN full_data : full_data[i].account = a })

RECURSIVE TallySum(_, _)
TallySum(tally, accounts) ==
    IF accounts = {} THEN 0
    ELSE LET a == CHOOSE x \in accounts : TRUE
         IN  tally[a] + TallySum(tally, accounts \ {a})

TallyConsistent ==
    /\ \A a \in DOMAIN account_personnel_count : account_personnel_count[a] = RecordsOf(a)
    /\ \A i \in DOMAIN full_data : full_data[i].account \in DOMAIN account_personnel_count
    /\ TallySum(account_personnel_count, DOMAIN account_personnel_count) = Len(full_data)

C26_TallyConsistency ==
    [][/\ TallyConsistent'
       /\ \A a \in DOMAIN account_personnel_count :
             /\ a \in DOMAIN account_personnel_count'
             /\ account_personnel_count'[a] >= account_personnel_count[a]]_vars

\* at the end: one account counted over two rows and a cell of two names, one at 0
C26_Witness ==
    /\ pc = "returned"
    /\ wb = <<IdleSheet>>
    /\ account_personnel_count[RBC] = 4
    /\ account_personnel_count[TD] = 0

----------------------------------------------------------------------------
(* C27.  Role resolution: every Record appended for the cell in column c    *)
(* has as role the trimmed non-blank label of row 1 at the greatest column  *)
(* <= c, down to column 0 (so the label of a management column when the     *)
(* personnel columns up to c have none), and the empty string only when     *)
(* row 1 has no label at or left of c.                                      *)

RoleOf(d, col) ==
    LET labelled == { c \in 0..col : TextAt(d, 1, c) # <<>> }
    IN  IF labelled = {} THEN <<>> ELSE TextAt(d, 1, Max(labelled))

C27_RoleResolution ==
    [][AtCell =>
          \A i \in Appended :
              /\ full_data'[i].role = RoleOf(df, col_idx)
              /\ full_data'[i].role = <<>> <=>
                    \A c \in 0..col_idx : EmptyCell(iloc(df, 1, c))]_vars

\* a Record of column 7 took the label of the manager column as its role
C27_Witness ==
    /\ pc = "cell" /\ col_idx = FirstPersonnelCol + 1
    /\ EmptyCell(iloc(df, 1, FirstPersonnelCol))
    /\ full_data # <<>>
    /\ full_data[Len(full_data)].role = ATLManager

----------------------------------------------------------------------------
(* C28.  Annotator frame: a completed run of calculate_fte_allocations      *)
(* leaves the Records, their number, their order and their eight fields     *)
(* as they were, keeps the eight columns in place with allocation as the    *)
(* one column added or overwritten, and gives every Record a value.         *)
C28_AnnotatorFrame ==
    [][runs' = runs + 1 =>
          /\ data_frame' = data_frame
          /\ SubSeq(columns', 1, Len(RecordColumns)) = SubSeq(columns, 1, Len(RecordColumns))
          /\ columns' = (IF has_column(columns, "allocation") THEN columns
                         ELSE columns \o <<"allocation">>)
          /\ DOMAIN allocation' = DOMAIN data_frame
          /\ \A i \in DOMAIN allocation' :
                allocation'[i].num >= 1 /\ allocation'[i].den >= 1]_vars

\* a first run on a frame of three Records or more that had no allocation column
C28_Witness ==
    /\ pc = "annotate" /\ runs = 1
    /\ Len(data_frame) >= 3
    /\ Len(allocation) = Len(data_frame)
    /\ columns = RecordColumns \o <<"allocation">>

Persons == { data_frame[i].person : i \in DOMAIN data_frame }

RECURSIVE GrandTotal(_, _)
\* the total of the per-account totals of a served chart
GrandTotal(fte, accounts) ==
    IF accounts = {} THEN Fraction(0, 1)
    ELSE LET a == CHOOSE x \in accounts : TRUE
         IN  fraction_add(fte[a], GrandTotal(fte, accounts \ {a}))

\* C29. FTE conservation: when /api/visualize/accounts_fte has answered with its
\* per-account totals, the allocation of the Records of every person adds up to
\* 1, and the totals of all accounts add up to the number of distinct persons,
\* also when a person has several Records on the same account.
C29_FteConservation ==
    (/\ request # NoRequest
     /\ request.endpoint = "visualize_accounts_fte"
     /\ response.status = 200)
        => /\ \A p \in Persons :
                 fraction_sum(allocation,
                              { i \in DOMAIN data_frame : data_frame[i].person = p })
                     = Fraction(1, 1)
           /\ GrandTotal(response.fte, DOMAIN response.fte)
                 = Fraction(Cardinality(Persons), 1)

\* the same for the datasets in which no person has two Records on one account
C29_OneRecordPerAccount ==
    (\A i, j \in DOMAIN data_frame :
        (data_frame[i].person = data_frame[j].person
            /\ data_frame[i].account = data_frame[j].account) => i = j)
        => C29_FteConservation

Annotated(cols) == has_column(cols, "allocation")

\* C30. Lazy annotation of the shared dataset: the dataset starts to be served
\* without an allocation field; only an FTE view adds it, and none of them sums
\* before it is there; once it is there every Record has an allocation value and
\* no value changes again, whatever views run and however their steps interleave
\* (a second or concurrent annotation writes the same values); no view adds,
\* removes or modifies a Record.
C30_LazyAnnotation ==
    [][/\ (pc # "serving" /\ pc' = "serving")
            => (~Annotated(columns') /\ allocation' = <<>>)
       /\ pc = "serving"
            => /\ data_frame' = data_frame
               /\ Annotated(columns) => (columns' = columns /\ allocation' = allocation)
               /\ (~Annotated(columns) /\ Annotated(columns'))
                    => \E t \in Threads :
                          /\ handlers[t].at = "assign"
                          /\ handlers[t].request.endpoint \in FteEndpoints
                          /\ handlers'[t].at = "respond"
               /\ Annotated(columns')
                    => /\ DOMAIN allocation' = DOMAIN data_frame
                       /\ columns' = RecordColumns \o <<"allocation">>
               /\ \A t \in Threads : handlers'[t].at = "respond" => Annotated(columns')
               /\ (request' # request /\ request'.endpoint \notin FteEndpoints)
                    => UNCHANGED frameVars]_vars

\* two threads have both annotated the dataset of three Records, and a view that
\* only reads has answered since
C30_Witness ==
    /\ pc = "serving"
    /\ runs = 2
    /\ data_frame = SharedPersonDataset
    /\ DOMAIN allocation = DOMAIN data_frame
    /\ request.endpoint = "get_stats"
    /\ \E t \in Threads : handlers[t].at = "respond"

----------------------------------------------------------------------------
(* The label-search revision of process_excel_file
   (src/.history/app_20250502145533.py) *)

\* None, for an index that was not found
NoIndex == -1

\* pd.read_excel(file_path, sheet_name=sheet_name): the first row of the sheet
\* becomes the column labels, the rows of the frame are the rows below it
read_excel_header(s) ==
    Sheet(s.name,
          IF s.nrows = 0 THEN 0 ELSE s.nrows - 1,
          s.ncols,
          [q \in { <<p[1] - 1, p[2]>> : p \in { x \in DOMAIN s.cells : x[1] >= 1 } }
              |-> s.cells[<<q[1] + 1, q[2]>>]])

\* for i, row in df.iterrows(): if "Coverage Name" in row.values: ... break
header_row_idx(d) ==
    LET found == { r \in 0..(d.nrows - 1) :
                      \E c \in 0..(d.ncols - 1) : iloc(d, r, c) = CoverageName }
    IN  IF found = {} THEN NoIndex
        ELSE CHOOSE r \in found : \A x \in found : r <= x

\* header_row_idx - 1 if header_row_idx > 0 else None
categories_row_idx(h) == IF h > 0 THEN h - 1 ELSE NoIndex

\* column -> trimmed text, for the non-blank cells of the header row
column_mapping(d, h) ==
    [c \in { k \in 0..(d.ncols - 1) : ~is_empty(iloc(d, h, k)) } |-> strip(iloc(d, h, c))]

\* the column index left by the loop over column_mapping.items() for one label
label_col_idx(mapping, label) ==
    LET found == { c \in DOMAIN mapping : mapping[c] = label }
    IN  IF found = {} THEN NoIndex ELSE Max(found)

\* col_idx <= manager_col_idx raises TypeError when manager_col_idx is None
role_names_raises(mapping) ==
    mapping # NoLabels /\ label_col_idx(mapping, ATLManager) = NoIndex

\* role_names: the labelled columns past manager_col_idx
role_names(mapping) ==
    [c \in { k \in DOMAIN mapping : k > label_col_idx(mapping, ATLManager) } |-> mapping[c]]

RECURSIVE label_role_categories(_, _, _)
\* role_categories: the own category of a role column, else the one already
\* recorded for the nearest role column to its left
label_role_categories(d, catrow, cols) ==
    IF catrow = NoIndex \/ cols = {} THEN NoLabels
    ELSE LET c == Max(cols)
             rest == label_role_categories(d, catrow, cols \ {c})
         IN  IF ~is_empty(iloc(d, catrow, c))
             THEN rest @@ (c :> strip(iloc(d, catrow, c)))
             ELSE IF DOMAIN rest # {}
             THEN rest @@ (c :> rest[Max(DOMAIN rest)])
             ELSE rest

\* re.match(r'^(TBD|N/A|None|Select|-)$', s)
label_placeholder_pattern(s) == s \in {TBD, N_A, None, Select, Hyphen}

label_not_placeholder(name) == ~label_placeholder_pattern(name)

\* the names for which a role cell gets a Record
label_cell_names(cell_value) ==
    IF is_empty(cell_value) THEN <<>>
    ELSE IF label_placeholder_pattern(strip(cell_value)) THEN <<>>
    ELSE SelectSeq(split_names(strip(cell_value)), label_not_placeholder)

\* str(row[idx]).strip() if idx is not None and pd.notna(row[idx]) else ""
label_management_field(d, r, idx) ==
    IF idx # NoIndex /\ ~isna(iloc(d, r, idx)) THEN strip(iloc(d, r, idx)) ELSE <<>>

RECURSIVE label_row_records(_, _, _, _, _)
\* the Records of one data row, role columns in ascending order
label_row_records(d, r, mapping, cats, cols) ==
    IF cols = {} THEN <<>>
    ELSE LET c == Max(cols)
             names == label_cell_names(iloc(d, r, c))
         IN  label_row_records(d, r, mapping, cats, cols \ {c}) \o
             [i \in DOMAIN names |->
                 Record(strip(iloc(d, r, label_col_idx(mapping, CoverageName))),
                        label_management_field(d, r, label_col_idx(mapping, ClientSubType)),
                        label_management_field(d, r, label_col_idx(mapping, Leader)),
                        label_management_field(d, r, label_col_idx(mapping, ATLManager)),
                        d.name,
                        lookup_own(cats, c),
                        mapping[c],
                        names[i])]

\* for sheet_name in sheet_names: read the sheet, find its header row and columns
label_sheet_start ==
    /\ pc = "sheet"
    /\ sheet_i <= Len(wb)
    /\ LET d == read_excel_header(df)
           h == header_row_idx(d)
           mapping == column_mapping(d, h)
       IN  IF h = NoIndex
           THEN /\ sheet_i' = sheet_i + 1          \* skipping
                /\ UNCHANGED <<wb, pc, row_idx, col_idx, role_categories, roles,
                               account_name, row_personnel_count, full_data,
                               account_personnel_count>>
           ELSE IF role_names_raises(mapping)
           THEN Raise
           ELSE /\ roles' = role_names(mapping)
                /\ role_categories' =
                      label_role_categories(d, categories_row_idx(h), DOMAIN roles')
                /\ row_idx' = h + 1
                /\ pc' = "row"
                /\ UNCHANGED <<wb, sheet_i, col_idx, account_name,
                               row_personnel_count, full_data,
                               account_personnel_count>>
    /\ UNCHANGED frameVars
    /\ UNCHANGED ioVars

\* for row_idx in range(data_start_idx, df.shape[0]): one data row
label_row ==
    /\ pc = "row"
    /\ LET d == read_excel_header(df)
           mapping == column_mapping(d, header_row_idx(d))
           acct == iloc(d, row_idx, label_col_idx(mapping, CoverageName))
           recs == label_row_records(d, row_idx, mapping, role_categories, DOMAIN roles)
       IN  /\ row_idx < d.nrows
           /\ row_idx' = row_idx + 1
           /\ IF is_empty(acct)
              THEN UNCHANGED <<account_name, row_personnel_count, full_data,
                               account_personnel_count>>
              ELSE /\ account_name' = strip(acct)
                   /\ row_personnel_count' = Len(recs)
                   /\ full_data' = full_data \o recs
                   /\ account_personnel_count' =
                         tally_add(tally_init(account_personnel_count, strip(acct)),
                                   strip(acct), Len(recs))
    /\ UNCHANGED <<wb, pc, sheet_i, col_idx, role_categories, roles>>
    /\ UNCHANGED frameVars
    /\ UNCHANGED ioVars

\* the rows of the sheet are done
label_sheet_end ==
    /\ pc = "row"
    /\ row_idx >= read_excel_header(df).nrows
    /\ sheet_i' = sheet_i + 1
    /\ pc' = "sheet"
    /\ UNCHANGED <<wb, row_idx, col_idx, role_categories, roles, account_name,
                   row_personnel_count, full_data, account_personnel_count>>
    /\ UNCHANGED frameVars
    /\ UNCHANGED ioVars

\* the rows of the sheets given to the label search, seven columns wide
LabelGrid(name, rows) == Sheet(name, Len(rows), 7, RowsCells(0, rows))

TitleRow == (0 :> Data)

CategoryRow == (4 :> Data)

LabelRow ==
    (0 :> CoverageName) @@ (1 :> ClientSubType) @@ (2 :> Leader) @@
    (3 :> ATLManager) @@ (4 :> Lead) @@ (5 :> Arch)

\* the sheet has no "ATL Manager" column
LabelRowNoManager ==
    (0 :> CoverageName) @@ (1 :> ClientSubType) @@ (2 :> Leader) @@
    (4 :> Lead) @@ (5 :> Arch)

\* "Leader" stands to the right of "ATL Manager"
LabelRowLeaderLast ==
    (0 :> CoverageName) @@ (1 :> ClientSubType) @@ (2 :> ATLManager) @@
    (3 :> Leader) @@ (4 :> Lead) @@ (5 :> Arch)

PersonRow(acct, p4, p5) ==
    (0 :> acct) @@ (1 :> Enterprise) @@ (2 :> Li) @@ (3 :> Mo) @@ (4 :> p4) @@ (5 :> p5)

LabelSheets ==
    { LabelGrid("Titled", <<TitleRow, CategoryRow, LabelRow, PersonRow(RBC, Al, AlCommaBo)>>),
      LabelGrid("Standard", <<CategoryRow, LabelRow, PersonRow(RBC, Al, Hyphen)>>),
      LabelGrid("Top", <<LabelRow, PersonRow(TD, Cy, NaN)>>),
      LabelGrid("Plain", <<TitleRow, LabelRow, PersonRow(TD, Hyphens, Bo),
                            PersonRow(NaN, Al, Al)>>),
      LabelGrid("NoManager", <<TitleRow, CategoryRow, LabelRowNoManager,
                                PersonRow(RBC, Al, Bo)>>),
      LabelGrid("LeaderLast", <<TitleRow, CategoryRow, LabelRowLeaderLast,
                                 PersonRow(RBC, Al, Bo)>>),
      LabelGrid("Notes", <<TitleRow, PersonRow(RBC, Al, Bo)>>),
      EmptySheet }

RECURSIVE LabelSheetLists(_)
LabelSheetLists(n) ==
    IF n = 0 THEN {<<>>}
    ELSE LET shorter == LabelSheetLists(n - 1)
         IN  shorter \cup
             { Append(l, sh) : l \in {x \in shorter : Len(x) = n - 1},
                               sh \in LabelSheets }

InitLabel ==
    /\ file_ok \in BOOLEAN
    /\ wb \in (IF file_ok THEN LabelSheetLists(MaxSheets) ELSE {<<>>})
    /\ pc = "load"
    /\ request = NoRequest
    /\ response = NoResponse
    /\ handlers = NoHandlers
    /\ sheet_i = 1
    /\ row_idx = 0
    /\ col_idx = 0
    /\ role_categories = NoLabels
    /\ roles = NoLabels
    /\ account_name = <<>>
    /\ row_personnel_count = 0
    /\ full_data = <<>>
    /\ account_personnel_count = NoTally
    /\ data_frame = <<>>
    /\ allocation = <<>>
    /\ columns = <<>>
    /\ runs = 0

NextLabel == Load \/ label_sheet_start \/ label_row \/ label_sheet_end \/ Return

SpecLabel == InitLabel /\ [][NextLabel]_vars

\* the rows of a sheet, as the file holds it, with a cell equal to "Coverage Name"
CoverageRows(s) ==
    { r \in 0..(s.nrows - 1) : \E c \in 0..(s.ncols - 1) : iloc(s, r, c) = CoverageName }

ManagementLabels == { CoverageName, ClientSubType, Leader, ATLManager }

ManagementCols(s, r) ==
    { c \in 0..(s.ncols - 1) : iloc(s, r, c) \in ManagementLabels }

\* the role row of sheet s is r: the personnel columns are the labelled columns
\* past the highest management column found, their categories those of row r - 1
ResolvedAs(s, r, rls, cats) ==
    /\ rls = [c \in { k \in (Max(ManagementCols(s, r)) + 1)..(s.ncols - 1) :
                         ~is_empty(iloc(s, r, k)) } |-> strip(iloc(s, r, c))]
    /\ r > 0 => \A c \in DOMAIN rls :
                   ~is_empty(iloc(s, r - 1, c))
                      => (c \in DOMAIN cats /\ cats[c] = strip(iloc(s, r - 1, c)))

\* the header resolution of the current sheet is as the label search describes
\* it; the sheets whose "Coverage Name" row is one of the first two rows, the
\* first of which pandas takes for the column labels, are left aside
LabelSearchStep ==
    (pc = "sheet" /\ sheet_i <= Len(wb) /\ \A r \in CoverageRows(df) : r >= 2)
       => IF CoverageRows(df) = {}
          THEN pc' = "sheet" /\ sheet_i' = sheet_i + 1 /\ full_data' = full_data
          ELSE /\ pc' = "row"
               /\ ResolvedAs(df,
                             CHOOSE r \in CoverageRows(df) :
                                 \A x \in CoverageRows(df) : r <= x,
                             roles', role_categories')

\* C21. Label-search strategy: a sheet with no cell equal to "Coverage Name" is
\* skipped; otherwise the first row holding such a cell becomes the role row and
\* the row above it, if any, the category row, the management columns are found
\* by their labels, and the personnel columns begin one past the highest
\* management column found, also when "ATL Manager" or another label is absent.
C21_LabelSearch == [][LabelSearchStep]_vars
=============================================================================
